---- MODULE Spec2Model ----
(***************************************************************************)
(* Model of emailReminder.py: the module-level start-up (SMTP             *)
(* configuration validation, loading tenants.json, the tally globals) and *)
(* the run check_and_send_email: the per-tenant reminder loop, the summary *)
(* ("alert") email and the log email.                                      *)
(*                                                                         *)
(* Python values are modelled by records.  A tenant list element is       *)
(*   [kind, has, name, email, payment_amount]                              *)
(* where kind is the JSON type of the element ("dict", "str", "list",     *)
(* "scalar" for number / true / false / null) and has is the set of the   *)
(* required field names for which the Python test `field in tenant` is    *)
(* true (keys of a dict, substrings of a str, members of a list).         *)
(***************************************************************************)
EXTENDS Integers, Sequences, FiniteSets, TLC

\* Longest tenant list drawn for tenants.json.
MaxTenants == 2

\* Number of times check_and_send_email is invoked in one process.
MaxRuns == 2

\* required_fields, in the order the loop tests them.
required_fields == <<"email", "name", "payment_amount", "payment_description">>

RequiredSet == {required_fields[i] : i \in 1..Len(required_fields)}

(***************************************************************************)
(* Raw payment_amount values: JSON strings, JSON null and JSON numbers.    *)
(***************************************************************************)
NumStr == [type |-> "str", text |-> "950"]
BadStr == [type |-> "str", text |-> "abc"]
Null == [type |-> "null", text |-> "None"]
Num == [type |-> "num", text |-> "1200"]
Absent == [type |-> "absent", text |-> ""]

\* Strings that Python's float() parses.
NumericTexts == {"950", "1200"}

\* float(x): "ok", or the exception class it raises.
Float(raw) ==
    CASE raw.type = "num" -> "ok"
      [] raw.type = "str" -> IF raw.text \in NumericTexts THEN "ok" ELSE "ValueError"
      [] OTHER -> "TypeError"

\* str(e) of the exception float() raises on a value that is neither a
\* string nor a number (here None).
FloatTypeErrorText == "float() argument must be a string or a real number, not 'NoneType'"

Dict(has, name, amount) ==
    [kind |-> "dict", has |-> has,
     name |-> IF "name" \in has THEN name ELSE "",
     email |-> IF "email" \in has THEN name \o "@x.com" ELSE "",
     payment_amount |-> IF "payment_amount" \in has THEN amount ELSE Absent]

NonDict(kind, has) ==
    [kind |-> kind, has |-> has, name |-> "", email |-> "", payment_amount |-> Absent]

\* The elements a tenants.json array is drawn from.
TenantValues ==
    { Dict(RequiredSet, "Alice", NumStr),
      Dict(RequiredSet, "Carol", BadStr),
      Dict(RequiredSet, "Dave", Null),
      Dict(RequiredSet \ {"email"}, "Erin", Num),
      Dict(RequiredSet \ {"name", "payment_amount"}, "Frank", Absent),
      NonDict("str", {}),
      NonDict("str", RequiredSet),
      NonDict("list", RequiredSet \ {"name"}),
      NonDict("scalar", {}) }

TenantLists == UNION { [1..n -> TenantValues] : n \in 0..MaxTenants }

\* What open() / json.load() of tenants.json can yield.
\* value is what json.load returned, as a sequence: the elements of an
\* array, or the one object that stands where an array should.
Sources ==
    {[outcome |-> o, value |-> <<>>] : o \in {"FileNotFoundError", "JSONDecodeError"}}
    \cup {[outcome |-> "not_a_list", value |-> <<t>>] : t \in TenantValues}
    \cup {[outcome |-> "list", value |-> l] : l \in TenantLists}

\* Environment values of the four SMTP settings (None, empty, or a string).
EnvValues == {"None", "", "set"}
PortValues == {"None", "", "587", "abc"}

\* int(SMTP_PORT) succeeds.
IntParses(s) == s \in {"587"}

\* Outcomes of one SMTP session (connect, starttls, login, sendmail).
TransportOutcomes == {"ok", "SMTPException", "OSError"}

TransportText(out) ==
    CASE out = "SMTPException" -> "(535, b'Authentication failed')"
      [] out = "OSError" -> "[Errno 111] Connection refused"
      [] OTHER -> ""

VARIABLES
    pc,               \* position of the process
    env,              \* the SMTP environment variables
    tenants_file,     \* what reading tenants.json gave ("unread" before)
    TENANTS,          \* the loaded tenant list
    success_count,
    failure_count,
    failed_tenants,
    idx,              \* position of the for loop in send_emails_to_all_tenants
    runs,             \* completed invocations of check_and_send_email
    smtp_sessions,    \* SMTP sessions opened so far, per kind of email
    runLog,           \* log records written by the current invocation
    summary,          \* the body composed by send_alert_email (last one)
    exit_status       \* process exit status ("running" while alive)

vars == <<pc, env, tenants_file, TENANTS, success_count, failure_count, failed_tenants, idx,
          runs, smtp_sessions, runLog, summary, exit_status>>

NoSummary == [composed |-> FALSE, total |-> 0, sent |-> 0, failed |-> 0, lines |-> <<>>]


(***************************************************************************)
(* Python operations on a tenant list element.                             *)
(***************************************************************************)

\* `field in tenant`: a key test on a dict, a substring test on a str, a
\* membership test on a list; a TypeError on a number, bool or None.
In(field, tenant) ==
    IF tenant.kind = "scalar" THEN "TypeError"
    ELSE IF field \in tenant.has THEN "True" ELSE "False"

\* tenant.get exists on dicts only; on anything else it is an AttributeError.
HasGet(tenant) == tenant.kind = "dict"

\* tenant.get(key, default) on a dict.
Get(tenant, key, default) ==
    IF key \in tenant.has THEN tenant[key] ELSE default

\* str(x) of a raw payment_amount, as an f-string formats it.
Str(raw) == IF raw.type = "null" THEN "None" ELSE raw.text

\* The first required field the loop finds missing, "" when none is.
FirstMissing(tenant) ==
    LET missing == {i \in 1..Len(required_fields) : In(required_fields[i], tenant) = "False"}
    IN IF missing = {} THEN ""
       ELSE required_fields[CHOOSE i \in missing : \A j \in missing : i <= j]

\* The dict appended to failed_tenants.
FailureRecord(tenant, prefix, detail) ==
    [tenant |-> Get(tenant, "name", "Unknown"),
     email |-> Get(tenant, "email", "Unknown"),
     reason |-> prefix \o ": " \o detail]

\* One record of the log: the level, the kind of event, the position of the
\* tenant it is about (0 when none) and the detail the message carries.
LogEntry(level, event, i, detail) ==
    [level |-> level, event |-> event, i |-> i, detail |-> detail]

(***************************************************************************)
(* send_email_reminder.  st is the state the call works on:                *)
(*   sc, fc, ft  success_count, failure_count, failed_tenants              *)
(*   ss          SMTP sessions opened for reminders                        *)
(*   lg          log records                                               *)
(*   raised      "" or the exception that leaves the function              *)
(***************************************************************************)

\* except Exception as e (lines 147-155).  The log message is formatted
\* first and it calls tenant.get: on a non-dict that raises inside the
\* handler, and the exception leaves the function.
OnException(tenant, i, st, text) ==
    IF ~HasGet(tenant) THEN [st EXCEPT !.raised = "AttributeError"]
    ELSE [st EXCEPT !.lg = Append(@, LogEntry("ERROR", "Unexpected error", i, text)),
                    !.fc = @ + 1,
                    !.ft = Append(@, FailureRecord(tenant, "Unexpected error", text))]

\* The SMTP handler as it would be if it forgot the failure record.
OnSMTPException_NoRecord(tenant, i, st, text) ==
    [st EXCEPT !.lg = Append(@, LogEntry("ERROR", "SMTP error", i, text)),
               !.fc = @ + 1]

\* except smtplib.SMTPException as smtp_err (lines 138-146).
OnSMTPException(tenant, i, st, text) ==
    IF ~HasGet(tenant) THEN [st EXCEPT !.raised = "AttributeError"]
    ELSE [st EXCEPT !.lg = Append(@, LogEntry("ERROR", "SMTP error", i, text)),
                    !.fc = @ + 1,
                    !.ft = Append(@, FailureRecord(tenant, "SMTP error", text))]

\* The missing-field branch as it would be without its return: the failure
\* is recorded and the function goes on to count the tenant as sent.
MissingField_NoReturn(tenant, i, st, field) ==
    [st EXCEPT !.lg = Append(@, LogEntry("ERROR", "Missing field", i, field)),
               !.fc = @ + 1,
               !.ft = Append(@, FailureRecord(tenant, "Missing field", field)),
               !.ss = @ + 1,
               !.sc = @ + 1]

\* Lines 81-88: log, count the failure, append the record, return.  The
\* append evaluates tenant.get; on a non-dict the AttributeError is caught
\* by except Exception, after failure_count was incremented.
MissingField(tenant, i, st, field) ==
    LET logged == [st EXCEPT !.lg = Append(@, LogEntry("ERROR", "Missing field", i, field)),
                             !.fc = @ + 1]
    IN IF ~HasGet(tenant)
       THEN OnException(tenant, i, logged, "object has no attribute 'get'")
       ELSE [logged EXCEPT !.ft = Append(@, FailureRecord(tenant, "Missing field", field))]

\* Lines 93-102: float() raised ValueError.
InvalidAmount(tenant, i, st) ==
    LET raw == Str(tenant.payment_amount)
    IN IF ~HasGet(tenant)
       THEN OnException(tenant, i, st, "object has no attribute 'get'")
       ELSE [st EXCEPT !.lg = Append(@, LogEntry("ERROR", "Invalid payment_amount", i, raw)),
                       !.fc = @ + 1,
                       !.ft = Append(@, FailureRecord(tenant, "Invalid payment_amount", raw))]

\* Lines 104-136: compose the message, open one SMTP session, send.
SendMail(tenant, i, st, out) ==
    LET opened == [st EXCEPT !.ss = @ + 1]
    IN CASE out = "ok" ->
              [opened EXCEPT !.lg = Append(@, LogEntry("INFO", "sent", i, tenant.email)),
                             !.sc = @ + 1]
         [] out = "SMTPException" -> OnSMTPException(tenant, i, opened, TransportText(out))
         [] OTHER -> OnException(tenant, i, opened, TransportText(out))

\* The whole function, for the tenant at position i and the outcome out of
\* the SMTP session (used only if the session is opened).
SendEmailReminderResult(tenant, i, st, out) ==
    IF In("email", tenant) = "TypeError"
    THEN OnException(tenant, i, st, "argument is not iterable")
    ELSE IF FirstMissing(tenant) # ""
    THEN MissingField(tenant, i, st, FirstMissing(tenant))
    ELSE IF ~HasGet(tenant)
    THEN OnException(tenant, i, st, "indices must be integers")
    ELSE CASE Float(tenant.payment_amount) = "ValueError" -> InvalidAmount(tenant, i, st)
           [] Float(tenant.payment_amount) = "TypeError" ->
                 OnException(tenant, i, st, FloatTypeErrorText)
           [] OTHER -> SendMail(tenant, i, st, out)

\* The loader as it would be without the isinstance check.
LoadResult_NoListCheck(src) == src.value

\* tenants.json as the loader leaves it in TENANTS (lines 50-62).
LoadResult(src) ==
    IF src.outcome = "list" THEN src.value ELSE <<>>

\* One line of the summary's "Failed Tenants" section.
FailedLine(failed) ==
    "- " \o failed.tenant \o " (" \o failed.email \o "): " \o failed.reason

\* The body send_alert_email composes (lines 164-178).
AlertBody(tenants, sc, fc, ft) ==
    [composed |-> TRUE,
     total |-> Len(tenants),
     sent |-> sc,
     failed |-> fc,
     lines |-> IF fc > 0 THEN [k \in 1..Len(ft) |-> FailedLine(ft[k])] ELSE <<>>]

\* Lines 38-46: the process goes on only with all four settings non-empty
\* and a port that int() parses.
ConfigValid(e) ==
    /\ e.SMTP_SERVER \notin {"None", ""}
    /\ e.SMTP_PORT \notin {"None", ""}
    /\ e.EMAIL_ADDRESS \notin {"None", ""}
    /\ e.EMAIL_PASSWORD \notin {"None", ""}
    /\ IntParses(e.SMTP_PORT)

(***************************************************************************)
(* The process.                                                            *)
(***************************************************************************)
Init ==
    /\ pc = "config"
    /\ env \in [SMTP_SERVER : EnvValues, SMTP_PORT : PortValues,
                EMAIL_ADDRESS : EnvValues, EMAIL_PASSWORD : EnvValues]
    /\ tenants_file = "unread"
    /\ TENANTS = <<>>
    /\ success_count = 0
    /\ failure_count = 0
    /\ failed_tenants = <<>>
    /\ idx = 0
    /\ runs = 0
    /\ smtp_sessions = [reminder |-> 0, alert |-> 0, log |-> 0]
    /\ runLog = <<>>
    /\ summary = NoSummary
    /\ exit_status = "running"

\* Lines 31-46: validate the SMTP settings; exit(1) on a missing one or on
\* a port that is no integer.
ValidateConfig ==
    /\ pc = "config"
    /\ IF ConfigValid(env)
       THEN pc' = "load" /\ exit_status' = exit_status
       ELSE pc' = "exited" /\ exit_status' = "1"
    /\ UNCHANGED <<env, tenants_file, TENANTS, success_count, failure_count, failed_tenants, idx,
                   runs, smtp_sessions, runLog, summary>>

\* Lines 48-67: load tenants.json, initialise the tally.
LoadTenants ==
    /\ pc = "load"
    /\ \E src \in Sources :
         /\ tenants_file' = src.outcome
         /\ TENANTS' = LoadResult(src)
    /\ success_count' = 0
    /\ failure_count' = 0
    /\ failed_tenants' = <<>>
    /\ pc' = "idle"
    /\ UNCHANGED <<env, idx, runs, smtp_sessions, runLog, summary, exit_status>>

\* check_and_send_email is called and enters send_emails_to_all_tenants
\* (lines 264-266): with no tenants it logs a warning and returns.
Invoke ==
    /\ pc = "idle"
    /\ runs < MaxRuns
    /\ summary' = NoSummary
    /\ IF Len(TENANTS) = 0
       THEN /\ runLog' = <<LogEntry("WARNING", "No tenants found", 0, "")>>
            /\ pc' = "summary"
            /\ idx' = 0
       ELSE /\ runLog' = <<>>
            /\ pc' = "batch"
            /\ idx' = 1
    /\ UNCHANGED <<env, tenants_file, TENANTS, success_count, failure_count, failed_tenants,
                   runs, smtp_sessions, exit_status>>

\* One iteration of the loop of lines 268-269.  An exception that leaves
\* send_email_reminder leaves the loop and check_and_send_email with it.
SendEmailReminder ==
    /\ pc = "batch"
    /\ idx \in 1..Len(TENANTS)
    /\ \E out \in TransportOutcomes :
         LET st == [sc |-> success_count, fc |-> failure_count, ft |-> failed_tenants,
                    ss |-> smtp_sessions.reminder, lg |-> runLog, raised |-> ""]
             r == SendEmailReminderResult(TENANTS[idx], idx, st, out)
         IN /\ success_count' = r.sc
            /\ failure_count' = r.fc
            /\ failed_tenants' = r.ft
            /\ smtp_sessions' = [smtp_sessions EXCEPT !.reminder = r.ss]
            /\ runLog' = r.lg
            /\ IF r.raised # ""
               THEN pc' = "crashed" /\ exit_status' = "1" /\ idx' = idx
               ELSE /\ exit_status' = exit_status
                    /\ idx' = idx + 1
                    /\ pc' = IF idx = Len(TENANTS) THEN "summary" ELSE "batch"
    /\ UNCHANGED <<env, tenants_file, TENANTS, runs, summary>>

\* send_alert_email: compose the summary, open one SMTP session; every
\* exception is logged and swallowed.
SendAlertEmail ==
    /\ pc = "summary"
    /\ summary' = AlertBody(TENANTS, success_count, failure_count, failed_tenants)
    /\ smtp_sessions' = [smtp_sessions EXCEPT !.alert = @ + 1]
    /\ \E out \in TransportOutcomes :
         runLog' = Append(runLog,
                     IF out = "ok" THEN LogEntry("INFO", "Alert email sent", 0, "")
                     ELSE IF out = "SMTPException"
                     THEN LogEntry("ERROR", "SMTP error alert", 0, TransportText(out))
                     ELSE LogEntry("ERROR", "Unexpected error alert", 0, TransportText(out)))
    /\ pc' = "log"
    /\ UNCHANGED <<env, tenants_file, TENANTS, success_count, failure_count, failed_tenants, idx,
                   runs, exit_status>>

\* send_log_email: a missing log file is logged before any session is
\* opened; every exception is logged and swallowed.  The call returns to
\* check_and_send_email, which returns.
SendLogEmail ==
    /\ pc = "log"
    /\ \E found \in BOOLEAN, out \in TransportOutcomes :
         IF ~found
         THEN /\ runLog' = Append(runLog, LogEntry("ERROR", "Log file not found", 0, ""))
              /\ smtp_sessions' = smtp_sessions
         ELSE /\ smtp_sessions' = [smtp_sessions EXCEPT !.log = @ + 1]
              /\ runLog' = Append(runLog,
                     IF out = "ok" THEN LogEntry("INFO", "Log email sent", 0, "")
                     ELSE IF out = "SMTPException"
                     THEN LogEntry("ERROR", "SMTP error log", 0, TransportText(out))
                     ELSE LogEntry("ERROR", "Unexpected error log", 0, TransportText(out)))
    /\ pc' = "idle"
    /\ runs' = runs + 1
    /\ UNCHANGED <<env, tenants_file, TENANTS, success_count, failure_count, failed_tenants, idx,
                   summary, exit_status>>

\* The script ends after its last invocation (lines 281-283).
Finish ==
    /\ pc = "idle"
    /\ runs >= 1
    /\ pc' = "finished"
    /\ exit_status' = "0"
    /\ UNCHANGED <<env, tenants_file, TENANTS, success_count, failure_count, failed_tenants, idx,
                   runs, smtp_sessions, runLog, summary>>

Next ==
    \/ ValidateConfig
    \/ LoadTenants
    \/ Invoke
    \/ SendEmailReminder
    \/ SendAlertEmail
    \/ SendLogEmail
    \/ Finish

Spec == Init /\ [][Next]_vars

(***************************************************************************)
(* Vocabulary of the properties.                                            *)
(***************************************************************************)

\* The tenant the loop is about to process.
Current == TENANTS[idx]

\* A step of the loop that processed one tenant and returned normally.
Returned == pc = "batch" /\ idx' = idx + 1

\* A step of the loop in which an exception left send_email_reminder.
Escaped == pc = "batch" /\ pc' = "crashed"

\* The step appended exactly one record to failed_tenants, with this reason.
AppendedOne(reason) ==
    /\ Len(failed_tenants') = Len(failed_tenants) + 1
    /\ SubSeq(failed_tenants', 1, Len(failed_tenants)) = failed_tenants
    /\ failed_tenants'[Len(failed_tenants')].reason = reason

CountedFailure ==
    /\ failure_count' = failure_count + 1
    /\ success_count' = success_count

TransportErrorTexts == {"(535, b'Authentication failed')", "[Errno 111] Connection refused"}

\* The log records of the current invocation that report a failed tenant.
RECURSIVE FailureLines(_)
FailureLines(lg) ==
    IF lg = <<>> THEN <<>>
    ELSE LET e == lg[Len(lg)]
             rest == FailureLines(SubSeq(lg, 1, Len(lg) - 1))
         IN IF e.level = "ERROR" /\ e.i > 0
            THEN Append(rest, "- " \o Get(TENANTS[e.i], "name", "Unknown") \o " ("
                              \o Get(TENANTS[e.i], "email", "Unknown") \o "): "
                              \o e.event \o ": " \o e.detail)
            ELSE rest

\* The number of reminders the current invocation logged as sent.
SentInRun == Cardinality({k \in 1..Len(runLog) : runLog[k].event = "sent"})

\* A transport failure of a reminder was logged in the current invocation.
TransportFailedInRun ==
    \E k \in 1..Len(runLog) :
        /\ runLog[k].i > 0
        /\ runLog[k].detail \in TransportErrorTexts

(***************************************************************************)
(* C1: nothing raised while processing one tenant escapes the batch        *)
(* sender: every step of the loop returns and moves on to the next tenant, *)
(* whatever the element is and whatever the transport does.                *)
(***************************************************************************)
C1_NothingEscapesBatch ==
    [][pc = "batch" => (pc' \in {"batch", "summary"} /\ idx' = idx + 1)]_vars

(***************************************************************************)
(* C2: processing a tenant object that lacks a required field appends      *)
(* exactly one failure record whose reason is "Missing field: <field>" for *)
(* a field that is missing, increments failure_count, leaves success_count *)
(* unchanged and opens no SMTP session.                                    *)
(***************************************************************************)
C2_MissingFieldRecorded ==
    [][(/\ pc = "batch"
        /\ Current.kind = "dict"
        /\ RequiredSet \ Current.has # {})
       => (/\ \E f \in RequiredSet \ Current.has : AppendedOne("Missing field: " \o f)
           /\ CountedFailure
           /\ smtp_sessions' = smtp_sessions
           /\ pc' # "crashed")]_vars

\* Scenario B has happened: a valid tenant was sent to, then a tenant
\* without email was recorded.
C2_Witness ==
    /\ pc = "summary"
    /\ Len(TENANTS) = 2
    /\ TENANTS[2].kind = "dict"
    /\ "email" \notin TENANTS[2].has
    /\ success_count = 1
    /\ failure_count = 1
    /\ failed_tenants = <<[tenant |-> "Erin", email |-> "Unknown",
                           reason |-> "Missing field: email"]>>

(***************************************************************************)
(* C3: processing a tenant object that has every required field but a      *)
(* payment_amount that is no number (a non-numeric string, or null)        *)
(* records a failure with reason "Invalid payment_amount: <raw value>",    *)
(* increments failure_count only, and opens no SMTP session.               *)
(***************************************************************************)
C3_InvalidAmountRecorded ==
    [][(/\ pc = "batch"
        /\ Current.kind = "dict"
        /\ RequiredSet \subseteq Current.has
        /\ \/ Current.payment_amount.type = "null"
           \/ /\ Current.payment_amount.type = "str"
              /\ Current.payment_amount.text \notin NumericTexts)
       => (/\ AppendedOne("Invalid payment_amount: " \o Current.payment_amount.text)
           /\ CountedFailure
           /\ smtp_sessions' = smtp_sessions)]_vars

(***************************************************************************)
(* C4: a transport failure for a valid tenant is recorded as a failure     *)
(* that carries the transport's error text, and every tenant after it in   *)
(* the list is still processed: once a transport failure has happened in   *)
(* the invocation, the loop is never left before its end.                  *)
(***************************************************************************)
C4_TransportFailureRecordedBatchGoesOn ==
    [][/\ (/\ pc = "batch"
           /\ smtp_sessions'.reminder = smtp_sessions.reminder + 1
           /\ success_count' = success_count)
          => (/\ CountedFailure
              /\ \E p \in {"SMTP error", "Unexpected error"}, t \in TransportErrorTexts :
                    AppendedOne(p \o ": " \o t))
       /\ (pc = "batch" /\ TransportFailedInRun) => pc' \in {"batch", "summary"}]_vars

(***************************************************************************)
(* C5: every invocation runs Validate&Send, then Summarize, then ShipLog,  *)
(* each once and in this order, whatever happens in a phase.               *)
(***************************************************************************)
C5_PhasesInOrder ==
    [][/\ pc = "idle" => pc' \in {"idle", "batch", "summary", "finished"}
       /\ pc = "batch" => pc' \in {"batch", "summary"}
       /\ pc = "summary" => pc' = "log"
       /\ pc = "log" => (pc' = "idle" /\ runs' = runs + 1)]_vars

(***************************************************************************)
(* C6: when the tenant set is empty (an empty array, a missing file,       *)
(* malformed JSON or a top-level value that is no array) no reminder is    *)
(* sent, the tally stays (0, 0) with no failure record, a warning is       *)
(* logged, and the summary is composed with "Total Tenants: 0".            *)
(***************************************************************************)
C6_EmptyTenantSet ==
    (\/ tenants_file \in {"FileNotFoundError", "JSONDecodeError", "not_a_list"}
     \/ (tenants_file = "list" /\ TENANTS = <<>>))
    => /\ TENANTS = <<>>
       /\ smtp_sessions.reminder = 0
       /\ success_count = 0 /\ failure_count = 0 /\ failed_tenants = <<>>
       /\ pc # "batch"
       /\ pc \in {"summary", "log"} =>
             (runLog # <<>> /\ runLog[1].level = "WARNING")
       /\ (pc = "log" \/ (pc \in {"idle", "finished"} /\ runs > 0)) =>
             summary = [composed |-> TRUE, total |-> 0, sent |-> 0, failed |-> 0,
                        lines |-> <<>>]

\* A load error happened and the run reached the log phase.
C6_Witness ==
    /\ tenants_file = "not_a_list"
    /\ pc = "log"
    /\ summary.composed
    /\ summary.total = 0

(***************************************************************************)
(* C7: the summary lists exactly the tenants that failed in the run, one   *)
(* line each, in the order in which they failed; none when none failed.    *)
(***************************************************************************)
C7_SummaryListsRunFailures ==
    (pc = "log" /\ summary.composed) => summary.lines = FailureLines(runLog)

(***************************************************************************)
(* C8: the process ends with a non-zero status exactly on a missing or     *)
(* malformed SMTP setting, and then before tenants.json is read and before *)
(* any SMTP session.                                                       *)
(***************************************************************************)
C8_OnlyConfigErrorTerminates ==
    /\ ~ConfigValid(env) =>
          /\ pc \in {"config", "exited"}
          /\ tenants_file = "unread"
          /\ smtp_sessions = [reminder |-> 0, alert |-> 0, log |-> 0]
    /\ pc = "exited" => exit_status = "1"
    /\ exit_status = "1" => ~ConfigValid(env)

(***************************************************************************)
(* C9: every invocation of check_and_send_email starts from a zero tally,  *)
(* and its summary reports the outcomes of that invocation only.           *)
(***************************************************************************)
C9_TallyScopedToRun ==
    /\ (pc = "batch" /\ idx = 1) =>
          (success_count = 0 /\ failure_count = 0 /\ failed_tenants = <<>>)
    /\ (pc = "log" /\ summary.composed) => summary.sent = SentInRun

(***************************************************************************)
(* C10: after each call of send_email_reminder that returns, exactly one   *)
(* of success_count and failure_count has grown, by one, and               *)
(* len(failed_tenants) = failure_count; a success adds no failure record;  *)
(* and the summary of a process's first run, composed after the loop has   *)
(* ended, has Successfully Sent + Failed to Send = Total Tenants.          *)
(***************************************************************************)
C10_OutcomeAccounting ==
    /\ [][Returned =>
            /\ \/ (success_count' = success_count + 1 /\ failure_count' = failure_count
                   /\ failed_tenants' = failed_tenants)
               \/ (failure_count' = failure_count + 1 /\ success_count' = success_count)
            /\ Len(failed_tenants') = failure_count']_vars
    /\ []((pc = "log" /\ runs = 0 /\ TENANTS # <<>>) =>
             /\ summary.sent + summary.failed = summary.total
             /\ Len(summary.lines) = summary.total - summary.sent)

\* A first run with one success and one failure has composed its summary.
C10_Witness ==
    /\ pc = "log"
    /\ runs = 0
    /\ summary.total = 2
    /\ summary.sent = 1
    /\ summary.failed = 1
    /\ Len(summary.lines) = 1

====
